---- MODULE Spec2Model ----
(***************************************************************************)
(* ExchangeMergeSink (query/src/api/rpc/exchange/exchange_sink_merge.rs):  *)
(* the outbound boundary processor of a query fragment, together with the  *)
(* collaborators it drives: its input port, the exchange manager's channel *)
(* registry and the bounded publish channel.                               *)
(***************************************************************************)
EXTENDS Integers, Sequences, FiniteSets, TLC

\* ---------------------------------------------------------------- bounds
\* Blocks the upstream processors push in total.
MaxBlocks == 3
\* Capacity of the bounded publish channel.
Capacity == 1

\* The fragment's sinks that merge into the same (query id, destination id):
\* two, the smallest topology in which lookups of the publish channel race.
Sinks == {1, 2}

VARIABLES
    input_data,               \* [Sinks -> Option<DataBlock>]
    output_data,              \* [Sinks -> Option<FlightData>]
    peer_endpoint_publisher,  \* [Sinks -> 0 (None) or the channel the Sender writes to]
    port,                     \* [Sinks -> the input port shared with the upstream]
    pc,                       \* [Sinks -> what the scheduler calls next on the sink]
    last,                     \* [Sinks -> the last call on the sink and what it returned]
    registry,                 \* exchange manager: channel of (query id, destination id), 0 = absent
    query_valid,              \* exchange manager: the query's registry entry is live
    lock,                     \* exchange manager: holder of the create-if-absent section, 0 = free
    seen,                     \* [Sinks -> registry entry read inside the section]
    chans,                    \* channels ever created: Seq of [q, closed]
    pushed,                   \* [Sinks -> kinds of the items the upstream pushed, in order]
    sent,                     \* [Sinks -> ids of the blocks whose frame a channel accepted, in order]
    d32,                      \* a call of DataTypeDate32::create_constant_column: arguments and result
    ice                       \* a call of IcebergTable::try_create_table_from_read: files, reads, result

\* The sink, its port, the exchange manager and the channels.
sink_vars == <<input_data, output_data, peer_endpoint_publisher, port, pc, last,
               registry, query_valid, lock, seen, chans, pushed, sent>>

\* The calls of the two functions modelled beside the sink.
call_vars == <<d32, ice>>

vars == <<sink_vars, call_vars>>

\* No call of create_constant_column / try_create_table_from_read is under way.
NoCall == [called |-> FALSE]

\* ---------------------------------------------------------------- values
\* What an upstream can push into a port: Ok(block) with rows, Ok(block) with
\* zero rows, Ok(block) whose serialization needs dictionary pages, or Err(e).
ItemKinds == {"rows", "empty", "dicts", "err"}

NoBlock == [some |-> FALSE, id |-> 0, kind |-> "none"]
Block(n, k) == [some |-> TRUE, id |-> n, kind |-> k]

NoFrame == [some |-> FALSE, id |-> 0]
FlightData(n) == [some |-> TRUE, id |-> n]

\* A frame on the wire: which sink produced it, from which block.
Wire(s, n) == [src |-> s, id |-> n]

\* The last call on a sink: the method, what it returned, the outcome of the send
\* it attempted ("none" when it attempted none) and the block or frame it handled.
Ret(op, val, tx, kind, n) == [op |-> op, val |-> val, tx |-> tx, kind |-> kind, id |-> n]

\* ---------------------------------------------------------------- port
has_data(p) == p.slot.some /\ ~p.finished
is_finished(p) == p.finished
pull_data(p) == [p EXCEPT !.slot = NoBlock]
set_need_data(p) == [p EXCEPT !.need = TRUE]
push_data(p, b) == [p EXCEPT !.slot = b, !.need = FALSE]
finish(p) == [p EXCEPT !.finished = TRUE]
can_push(p) == ~p.slot.some /\ ~p.finished

\* ---------------------------------------------------------------- channel
\* async_channel::Sender::try_send on a bounded channel: Closed wins over Full.
try_send(c) ==
    IF c.closed THEN "closed"
    ELSE IF Len(c.q) >= Capacity THEN "full"
    ELSE "ok"

enqueue(c, f) == [c EXCEPT !.q = Append(c.q, f)]

\* Sender::send(..).await completes once the channel has room or is closed.
send_ready(c) == c.closed \/ Len(c.q) < Capacity

RECURSIVE SumLen(_)
SumLen(S) == IF S = {} THEN 0
             ELSE LET s == CHOOSE x \in S : TRUE IN Len(pushed[s]) + SumLen(S \ {s})

TotalPushed == SumLen(Sinks)

\* ---------------------------------------------------------------- init
\* try_create: both buffers empty, publisher unresolved.
SinkInit ==
    /\ input_data = [s \in Sinks |-> NoBlock]
    /\ output_data = [s \in Sinks |-> NoFrame]
    /\ peer_endpoint_publisher = [s \in Sinks |-> 0]
    /\ port = [s \in Sinks |-> [slot |-> NoBlock, finished |-> FALSE, need |-> FALSE]]
    /\ pc = [s \in Sinks |-> "event"]
    /\ last = [s \in Sinks |-> Ret("new", "none", "none", "none", 0)]
    /\ registry = 0
    /\ query_valid = TRUE
    /\ lock = 0
    /\ seen = [s \in Sinks |-> 0]
    /\ chans = <<>>
    /\ pushed = [s \in Sinks |-> <<>>]
    /\ sent = [s \in Sinks |-> <<>>]

Init ==
    /\ SinkInit
    /\ d32 = NoCall
    /\ ice = NoCall

\* ---------------------------------------------------------------- upstream
Push(s, k) ==
    /\ can_push(port[s])
    /\ TotalPushed < MaxBlocks
    /\ port' = [port EXCEPT ![s] = push_data(@, Block(Len(pushed[s]) + 1, k))]
    /\ pushed' = [pushed EXCEPT ![s] = Append(@, k)]
    /\ UNCHANGED <<input_data, output_data, peer_endpoint_publisher, pc, last,
                   registry, query_valid, lock, seen, chans, sent>>
    /\ UNCHANGED call_vars

Finish(s) ==
    /\ ~port[s].finished
    /\ port' = [port EXCEPT ![s] = finish(@)]
    /\ UNCHANGED <<input_data, output_data, peer_endpoint_publisher, pc, last,
                   registry, query_valid, lock, seen, chans, pushed, sent>>
    /\ UNCHANGED call_vars

\* ---------------------------------------------------------------- transport
\* The consumer of a channel takes its oldest frame.
Drain(c) ==
    /\ c \in 1..Len(chans)
    /\ ~chans[c].closed
    /\ chans[c].q # <<>>
    /\ chans' = [chans EXCEPT ![c].q = Tail(@)]
    /\ UNCHANGED <<input_data, output_data, peer_endpoint_publisher, port, pc, last,
                   registry, query_valid, lock, seen, pushed, sent>>
    /\ UNCHANGED call_vars

\* The consumer of a channel goes away.
CloseChannel(c) ==
    /\ c \in 1..Len(chans)
    /\ ~chans[c].closed
    /\ chans' = [chans EXCEPT ![c].closed = TRUE]
    /\ UNCHANGED <<input_data, output_data, peer_endpoint_publisher, port, pc, last,
                   registry, query_valid, lock, seen, pushed, sent>>
    /\ UNCHANGED call_vars

\* The query's registry entry is invalidated and its channels are released.
InvalidateQuery ==
    /\ query_valid
    /\ lock = 0
    /\ query_valid' = FALSE
    /\ registry' = 0
    /\ chans' = [c \in 1..Len(chans) |-> [chans[c] EXCEPT !.closed = TRUE]]
    /\ UNCHANGED <<input_data, output_data, peer_endpoint_publisher, port, pc, last,
                   lock, seen, pushed, sent>>
    /\ UNCHANGED call_vars

\* ---------------------------------------------------------------- exchange manager
\* A registry whose create-if-absent path is not guarded.
SectionFree_unguarded == TRUE

\* The create-if-absent section admits one caller at a time.
SectionFree == lock = 0

\* A sink that resolves its publisher on every event(), frame or no frame.
needs_publisher_eager(s) == peer_endpoint_publisher[s] = 0

\* event(), lines 48-49: a frame is pending and no publisher is resolved yet.
needs_publisher(s) == output_data[s].some /\ peer_endpoint_publisher[s] = 0

\* event(), lines 48-53: the sink enters get_fragment_sink and reads the
\* registry entry.
GetFragmentSinkEnter(s) ==
    /\ pc[s] = "event"
    /\ needs_publisher(s)
    /\ SectionFree
    /\ lock' = s
    /\ seen' = [seen EXCEPT ![s] = registry]
    /\ pc' = [pc EXCEPT ![s] = "lookup"]
    /\ UNCHANGED <<input_data, output_data, peer_endpoint_publisher, port, last,
                   registry, query_valid, chans, pushed, sent>>
    /\ UNCHANGED call_vars

\* get_fragment_sink returns: the sender of the entry read, a newly created
\* channel when there was none, or an error when the query is not registered
\* (the `?` of line 53: event() returns the error, the taken frame is gone).
GetFragmentSinkExit(s) ==
    /\ pc[s] = "lookup"
    /\ lock' = IF lock = s THEN 0 ELSE lock
    /\ seen' = [seen EXCEPT ![s] = 0]
    /\ IF ~query_valid
       THEN /\ output_data' = [output_data EXCEPT ![s] = NoFrame]
            /\ pc' = [pc EXCEPT ![s] = "failed"]
            /\ last' = [last EXCEPT ![s] = Ret("event", "Err", "none", "none", output_data[s].id)]
            /\ UNCHANGED <<peer_endpoint_publisher, registry, chans>>
       ELSE IF seen[s] # 0
       THEN /\ peer_endpoint_publisher' = [peer_endpoint_publisher EXCEPT ![s] = seen[s]]
            /\ pc' = [pc EXCEPT ![s] = "resolved"]
            /\ UNCHANGED <<output_data, last, registry, chans>>
       ELSE /\ chans' = Append(chans, [q |-> <<>>, closed |-> FALSE])
            /\ registry' = Len(chans) + 1
            /\ peer_endpoint_publisher' = [peer_endpoint_publisher EXCEPT ![s] = Len(chans) + 1]
            /\ pc' = [pc EXCEPT ![s] = "resolved"]
            /\ UNCHANGED <<output_data, last>>
    /\ UNCHANGED <<input_data, port, query_valid, pushed, sent>>
    /\ UNCHANGED call_vars

\* ---------------------------------------------------------------- sink
\* An event() that tests the port before its own buffered block.
Decide_port_first(s) ==
    IF is_finished(port[s]) THEN "Finished"
    ELSE IF input_data[s].some THEN "Sync"
    ELSE IF has_data(port[s]) THEN "Pull"
    ELSE "NeedData"

\* event(), lines 73-87: what the sink decides once the send stage is over.
Decide(s) ==
    IF input_data[s].some THEN "Sync"
    ELSE IF is_finished(port[s]) THEN "Finished"
    ELSE IF has_data(port[s]) THEN "Pull"
    ELSE "NeedData"

EventInput(s, tx) ==
    LET d == Decide(s)
        b == port[s].slot
    IN  CASE d = "Sync" ->
               /\ last' = [last EXCEPT ![s] = Ret("event", "Sync", tx, "none", 0)]
               /\ pc' = [pc EXCEPT ![s] = "process"]
               /\ UNCHANGED <<input_data, port>>
          [] d = "Finished" ->
               /\ last' = [last EXCEPT ![s] = Ret("event", "Finished", tx, "none", 0)]
               /\ pc' = [pc EXCEPT ![s] = "finished"]
               /\ UNCHANGED <<input_data, port>>
          [] d = "Pull" ->
               \* pull_data().unwrap()? : the item leaves the port; an Err(e) is returned
               /\ port' = [port EXCEPT ![s] = pull_data(@)]
               /\ IF b.kind = "err"
                  THEN /\ last' = [last EXCEPT ![s] = Ret("event", "Err", tx, b.kind, b.id)]
                       /\ pc' = [pc EXCEPT ![s] = "failed"]
                       /\ UNCHANGED input_data
                  ELSE /\ input_data' = [input_data EXCEPT ![s] = b]
                       /\ last' = [last EXCEPT ![s] = Ret("event", "Sync", tx, b.kind, b.id)]
                       /\ pc' = [pc EXCEPT ![s] = "process"]
          [] d = "NeedData" ->
               /\ port' = [port EXCEPT ![s] = set_need_data(@)]
               /\ last' = [last EXCEPT ![s] = Ret("event", "NeedData", tx, "none", 0)]
               /\ pc' = [pc EXCEPT ![s] = "event"]
               /\ UNCHANGED input_data

\* A sink that forgets to ask for the suspended send.
need_async_send_lost(tx) == FALSE

\* A sink that asks for the suspended send whatever try_send answered.
need_async_send_always(tx) == TRUE

\* event(), lines 61-70: only a full channel asks for the suspended send.
need_async_send(tx) == tx = "full"

\* event(), lines 47-88, from the point where the publisher is resolved (or no
\* frame is pending).
EventBody(s) ==
    /\ IF output_data[s].some
       THEN LET c == peer_endpoint_publisher[s]
                out == output_data[s]
                tx == try_send(chans[c])
            IN  IF tx = "closed"
                THEN /\ output_data' = [output_data EXCEPT ![s] = NoFrame]
                     /\ last' = [last EXCEPT ![s] = Ret("event", "Finished", tx, "none", out.id)]
                     /\ pc' = [pc EXCEPT ![s] = "finished"]
                     /\ UNCHANGED <<input_data, port, chans, sent>>
                ELSE /\ IF tx = "ok"
                        THEN /\ chans' = [chans EXCEPT ![c] = enqueue(@, Wire(s, out.id))]
                             /\ sent' = [sent EXCEPT ![s] = Append(@, out.id)]
                             /\ output_data' = [output_data EXCEPT ![s] = NoFrame]
                        ELSE UNCHANGED <<chans, sent, output_data>>
                     /\ IF need_async_send(tx)
                        THEN /\ last' = [last EXCEPT ![s] = Ret("event", "Async", tx, "none", out.id)]
                             /\ pc' = [pc EXCEPT ![s] = "async_process"]
                             /\ UNCHANGED <<input_data, port>>
                        ELSE EventInput(s, tx)
       ELSE /\ EventInput(s, "none")
            /\ UNCHANGED <<output_data, chans, sent>>
    /\ UNCHANGED <<peer_endpoint_publisher, registry, query_valid, lock, seen, pushed>>
    /\ UNCHANGED call_vars

\* The scheduler polls event(): at the start, after NeedData, and after process()
\* or async_process() returned Ok.
Event(s) ==
    /\ \/ pc[s] = "event" /\ ~needs_publisher(s)
       \/ pc[s] = "resolved"
    /\ EventBody(s)

\* A caller polls event() again although its last answer was Sync, Async or
\* Finished.
Repoll(s) ==
    /\ pc[s] \in {"process", "async_process", "finished"}
    /\ ~needs_publisher(s)
    /\ EventBody(s)

\* A process() that reads the buffered block without taking it.
process_taken_kept(b) == b

\* process(), line 91: input_data.take() leaves None behind.
process_taken(b) == NoBlock

\* A process() without the zero-row early return.
is_empty_never(b) == FALSE

\* process(), line 92: data_block.is_empty().
is_empty(b) == b.kind = "empty"

\* A process() that ignores the dictionary pages.
dicts_is_empty_always(b) == TRUE

\* process(), lines 99-101: dicts.is_empty() of the serialized batch.
dicts_is_empty(b) == b.kind # "dicts"

\* process(), lines 90-110.
Process(s) ==
    /\ pc[s] = "process"
    /\ input_data' = [input_data EXCEPT ![s] = process_taken(@)]
    /\ LET b == input_data[s]
       IN  IF ~b.some \/ is_empty(b)
           THEN /\ last' = [last EXCEPT ![s] = Ret("process", "Ok", "none", b.kind, b.id)]
                /\ pc' = [pc EXCEPT ![s] = "event"]
                /\ UNCHANGED output_data
           ELSE IF ~dicts_is_empty(b)
           THEN /\ last' = [last EXCEPT ![s] = Ret("process", "Err", "none", b.kind, b.id)]
                /\ pc' = [pc EXCEPT ![s] = "failed"]
                /\ UNCHANGED output_data
           ELSE /\ output_data' = [output_data EXCEPT ![s] = FlightData(b.id)]
                /\ last' = [last EXCEPT ![s] = Ret("process", "Ok", "none", b.kind, b.id)]
                /\ pc' = [pc EXCEPT ![s] = "event"]
    /\ UNCHANGED <<peer_endpoint_publisher, port, registry, query_valid, lock, seen,
                   chans, pushed, sent>>
    /\ UNCHANGED call_vars

\* An async_process() that keeps the frame it tried to send.
async_taken_kept(out) == out

\* async_process(), line 113: output_data.take() leaves None behind.
async_taken(out) == NoFrame

\* async_process(), lines 112-124; the step is the completion of the awaited send.
AsyncProcess(s) ==
    /\ pc[s] = "async_process"
    /\ output_data' = [output_data EXCEPT ![s] = async_taken(@)]
    /\ LET c == peer_endpoint_publisher[s]
           out == output_data[s]
       IN  IF out.some /\ c # 0
           THEN /\ send_ready(chans[c])
                /\ IF chans[c].closed
                   THEN /\ last' = [last EXCEPT ![s] = Ret("async_process", "Err", "closed", "none", out.id)]
                        /\ pc' = [pc EXCEPT ![s] = "failed"]
                        /\ UNCHANGED <<chans, sent>>
                   ELSE /\ chans' = [chans EXCEPT ![c] = enqueue(@, Wire(s, out.id))]
                        /\ sent' = [sent EXCEPT ![s] = Append(@, out.id)]
                        /\ last' = [last EXCEPT ![s] = Ret("async_process", "Ok", "ok", "none", out.id)]
                        /\ pc' = [pc EXCEPT ![s] = "event"]
           ELSE /\ last' = [last EXCEPT ![s] = Ret("async_process", "Ok", "none", "none", out.id)]
                /\ pc' = [pc EXCEPT ![s] = "event"]
                /\ UNCHANGED <<chans, sent>>
    /\ UNCHANGED <<input_data, peer_endpoint_publisher, port, registry, query_valid,
                   lock, seen, pushed>>
    /\ UNCHANGED call_vars

\* ---------------------------------------------------------------- specification
Next ==
    \/ \E s \in Sinks, k \in ItemKinds : Push(s, k)
    \/ \E s \in Sinks : Finish(s)
    \/ \E c \in Sinks : Drain(c)
    \/ \E c \in Sinks : CloseChannel(c)
    \/ InvalidateQuery
    \/ \E s \in Sinks : GetFragmentSinkEnter(s)
    \/ \E s \in Sinks : GetFragmentSinkExit(s)
    \/ \E s \in Sinks : Event(s)
    \/ \E s \in Sinks : Process(s)
    \/ \E s \in Sinks : AsyncProcess(s)

Spec == Init /\ [][Next]_vars

\* The sink under a caller that may poll event() at any time, and calls
\* process() only after Sync and async_process() only after Async.
NextFree ==
    \/ Next
    \/ \E s \in Sinks : Repoll(s)

SpecFree == Init /\ [][NextFree]_vars

\* ---------------------------------------------------------------- properties
\* Ids of the blocks with rows among the first n items of ks, in order.
RECURSIVE RowIds(_, _)
RowIds(ks, n) ==
    IF n = 0 THEN <<>>
    ELSE IF ks[n] = "rows" THEN Append(RowIds(ks, n - 1), n)
    ELSE RowIds(ks, n - 1)

\* The step is a return of event() on sink s.
EventStep(s) ==
    /\ pc[s] \notin {"lookup", "failed"}
    /\ pc'[s] # "lookup"
    /\ last'[s].op = "event"
    /\ (last'[s] # last[s] \/ pc'[s] # pc[s])

\* The step takes the item out of the input port of sink s.
Pulled(s) == port[s].slot.some /\ ~port'[s].slot.some

AllOpen == query_valid /\ \A c \in 1..Len(chans) : ~chans[c].closed

\* C1. Backpressure: an event() that finds its pending frame refused by a full
\* channel returns Async, keeps that frame and leaves the port and the input
\* buffer alone; and whenever a block is pulled from the port, the frames of all
\* earlier blocks with rows have been accepted by the channel.
C1_Backpressure ==
    [][\A s \in Sinks :
        /\ (/\ EventStep(s)
            /\ output_data[s].some
            /\ try_send(chans[peer_endpoint_publisher[s]]) = "full")
           => /\ last'[s].val = "Async"
              /\ output_data'[s] = output_data[s]
              /\ port'[s] = port[s]
              /\ input_data'[s] = input_data[s]
        /\ Pulled(s) => sent'[s] = RowIds(pushed[s], port[s].slot.id - 1)]_vars

C1_Witness ==
    \E s \in Sinks :
        /\ last[s].val = "Async"
        /\ last[s].tx = "full"
        /\ output_data[s].some
        /\ has_data(port[s])

\* C2. One frame per non-empty block: a sink that has reported Finished, with
\* the query registered and no channel closed, has had exactly one frame
\* accepted for each block with rows its upstream pushed, in order, and none
\* for any other block.
C2_OneFramePerBlock ==
    \A s \in Sinks :
        (pc[s] = "finished" /\ AllOpen)
        => sent[s] = RowIds(pushed[s], Len(pushed[s]))

\* C3. Termination: when event() reports Finished with the publish channel
\* open, the sink holds no buffered block and no pending frame and no pushed
\* block is left in its input port.
C3_FinishedLeavesNothing ==
    \A s \in Sinks :
        (last[s].op = "event" /\ last[s].val = "Finished" /\ AllOpen)
        => /\ ~input_data[s].some
           /\ ~output_data[s].some
           /\ ~port[s].slot.some

\* C4. A closed channel is a normal end: every delivery attempt that finds the
\* channel closed, in event() or in async_process(), ends the sink in Finished
\* and returns no error.
C4_ClosedIsFinished ==
    \A s \in Sinks :
        last[s].tx = "closed" => (last[s].val = "Finished" /\ pc[s] = "finished")

\* The last call on sink s was process() on a zero-row block.
ProcessedEmpty(s) == last[s].op = "process" /\ last[s].kind = "empty"

\* C5. Empty-block no-op: process() on a zero-row block returns Ok, leaves no
\* buffered block and no pending frame, and the next event() neither looks up
\* nor changes any channel, publisher or registry entry.
C5_EmptyBlockNoOp ==
    [][\A s \in Sinks :
        /\ ProcessedEmpty(s)
           => /\ last[s].val = "Ok"
              /\ ~input_data[s].some
              /\ ~output_data[s].some
              /\ pc'[s] # "lookup"
              /\ EventStep(s) =>
                    UNCHANGED <<chans, sent, peer_endpoint_publisher, registry>>
        /\ ProcessedEmpty(s)'
           => /\ last'[s].val = "Ok"
              /\ ~input_data'[s].some
              /\ ~output_data'[s].some]_vars

C5_Witness ==
    \E s \in Sinks :
        /\ ProcessedEmpty(s)
        /\ peer_endpoint_publisher[s] # 0
        /\ Len(sent[s]) > 0

\* C6. Capability error: process() on a block whose serialization has
\* dictionary pages returns an error and leaves no pending frame, and no frame
\* of such a block is ever accepted by a channel.
C6_DictsUnimplemented ==
    \A s \in Sinks :
        /\ (last[s].op = "process" /\ last[s].kind = "dicts")
           => /\ last[s].val = "Err"
              /\ pc[s] = "failed"
              /\ ~output_data[s].some
        /\ \A i \in 1..Len(sent[s]) : pushed[s][sent[s][i]] # "dicts"
        /\ \A c \in 1..Len(chans) : \A i \in 1..Len(chans[c].q) :
              pushed[chans[c].q[i].src][chans[c].q[i].id] # "dicts"

C6_Witness ==
    \E s \in Sinks :
        /\ last[s].op = "process"
        /\ last[s].kind = "dicts"
        /\ last[s].val = "Err"
        /\ Len(sent[s]) > 0

\* C7. Transport failure: a suspended send that fails makes async_process()
\* return an error, leaves no pending frame, and the frame is not among the
\* frames the channel accepted.
C7_TransportFailure ==
    \A s \in Sinks :
        (last[s].op = "async_process" /\ last[s].tx = "closed")
        => /\ last[s].val = "Err"
           /\ pc[s] = "failed"
           /\ ~output_data[s].some
           /\ \A i \in 1..Len(sent[s]) : sent[s][i] # last[s].id

C7_Witness ==
    \E s \in Sinks :
        /\ last[s].op = "async_process"
        /\ last[s].val = "Err"
        /\ last[s].id # 0

\* A return of event() that got past the send stage: no frame was pending, or
\* try_send accepted it.
EventPastSend(s) ==
    /\ EventStep(s)
    /\ (~output_data[s].some \/ last'[s].tx = "ok")

\* The rows of the table that do not pull.
TableNoPull(s) ==
    IF input_data[s].some
    THEN last'[s].val = "Sync" /\ input_data'[s] = input_data[s] /\ port'[s] = port[s]
    ELSE IF port[s].finished
    THEN last'[s].val = "Finished" /\ input_data'[s] = input_data[s] /\ port'[s] = port[s]
    ELSE /\ last'[s].val = "NeedData"
         /\ input_data'[s] = input_data[s]
         /\ port'[s] = [port[s] EXCEPT !.need = TRUE]

TakesPull(s) == ~input_data[s].some /\ ~port[s].finished /\ port[s].slot.some

\* C8, as stated. Decision priority of event() once no frame is pending: Sync
\* on a buffered block; else Finished on a finished port; else, on a port with
\* data, the item is pulled into the buffer and Sync returned; else need-data is
\* marked and NeedData returned.
C8_DecisionTable ==
    [][\A s \in Sinks :
        EventPastSend(s)
        => /\ ~output_data'[s].some
           /\ IF TakesPull(s)
              THEN /\ last'[s].val = "Sync"
                   /\ input_data'[s] = port[s].slot
                   /\ port'[s] = [port[s] EXCEPT !.slot = NoBlock]
              ELSE TableNoPull(s)]_vars

\* C8, amended. The same priority order, where the item pulled from a port with
\* data is buffered and Sync returned when it is a block, and when it is an
\* error event() returns that error and buffers nothing.
C8_DecisionTableWithError ==
    [][\A s \in Sinks :
        EventPastSend(s)
        => /\ ~output_data'[s].some
           /\ IF TakesPull(s)
              THEN /\ port'[s] = [port[s] EXCEPT !.slot = NoBlock]
                   /\ IF port[s].slot.kind = "err"
                      THEN last'[s].val = "Err" /\ input_data'[s] = input_data[s]
                      ELSE last'[s].val = "Sync" /\ input_data'[s] = port[s].slot
              ELSE TableNoPull(s)]_vars

C8_Witness ==
    \E s \in Sinks :
        /\ last[s].op = "event"
        /\ last[s].val = "Sync"
        /\ last[s].tx = "ok"
        /\ last[s].id # 0
        /\ input_data[s].some

\* C9. Idempotent channel creation: at most one channel is ever created for the
\* (query id, destination id) pair and every sink that resolved its publisher
\* holds a sender of that one channel.
C9_IdempotentChannelCreation ==
    /\ Len(chans) <= 1
    /\ \A s, t \in Sinks :
          (peer_endpoint_publisher[s] # 0 /\ peer_endpoint_publisher[t] # 0)
          => peer_endpoint_publisher[s] = peer_endpoint_publisher[t]

C9_Witness == \A s \in Sinks : peer_endpoint_publisher[s] # 0

\* At most one of the two buffers is occupied, and none holds a frame when
\* process() is due.
SingleSlot(s) ==
    /\ ~(input_data[s].some /\ output_data[s].some)
    /\ pc[s] = "process" => ~output_data[s].some

\* C10. Single-slot buffering: a sink never holds a buffered block and a pending
\* frame together; process() runs only with no frame pending; and a block is
\* pulled only from a port with data, with no block buffered and no frame left
\* pending.
C10_SingleSlot ==
    [][\A s \in Sinks :
        /\ SingleSlot(s)
        /\ SingleSlot(s)'
        /\ Pulled(s) => /\ has_data(port[s])
                        /\ ~input_data[s].some
                        /\ ~output_data'[s].some]_vars

C10_Witness ==
    \E s \in Sinks :
        /\ last[s].op = "process"
        /\ output_data[s].some
        /\ port[s].slot.some
        /\ Len(sent[s]) > 0

\* C11, as stated. Finished is terminal: after event() has returned Finished,
\* for whichever reason, every later event() returns Finished again, takes
\* nothing from the input port and changes no channel.
C11_FinishedIsTerminal ==
    [][\A s \in Sinks :
        (last[s].op = "event" /\ last[s].val = "Finished")
        => /\ pc[s] = "finished"
           /\ ~output_data[s].some
           /\ EventStep(s) => /\ last'[s].val = "Finished"
                              /\ UNCHANGED <<port, input_data, chans, sent>>]_vars

\* C11, amended. After event() has returned Finished because the input port is
\* finished, every later event() returns Finished again, takes nothing from the
\* input port and changes no channel; the sink holds no pending frame then.
C11_FinishedByPortIsTerminal ==
    [][\A s \in Sinks :
        (last[s].op = "event" /\ last[s].val = "Finished" /\ last[s].tx # "closed")
        => /\ pc[s] = "finished"
           /\ is_finished(port[s])
           /\ ~output_data[s].some
           /\ EventStep(s) => /\ last'[s].val = "Finished"
                              /\ last'[s].tx = "none"
                              /\ UNCHANGED <<port, input_data, chans, sent>>]_vars

C11_Witness ==
    \E s \in Sinks :
        /\ last[s].op = "event"
        /\ last[s].val = "Finished"
        /\ last[s].tx = "none"
        /\ port[s].slot.some
        /\ Len(sent[s]) > 0

\* Ids in seq grow strictly from left to right.
Increasing(seq) == \A i, j \in 1..Len(seq) : i < j => seq[i] < seq[j]

\* The ids of the frames of sink s in the queue q, in queue order.
RECURSIVE FramesOf(_, _)
FramesOf(q, s) ==
    IF q = <<>> THEN <<>>
    ELSE IF Head(q).src = s THEN <<Head(q).id>> \o FramesOf(Tail(q), s)
    ELSE FramesOf(Tail(q), s)

\* C12. Order preservation: the frames a channel accepted from a sink, and the
\* frames of that sink waiting in a channel, are in the order in which their
\* blocks went through the input port (block ids grow in that order), none
\* twice, and the frames still waiting are the last ones accepted.
C12_OrderPreserved ==
    \A s \in Sinks :
        /\ Increasing(sent[s])
        /\ \A i \in 1..Len(sent[s]) : pushed[s][sent[s][i]] = "rows"
        /\ \A c \in 1..Len(chans) :
              LET w == FramesOf(chans[c].q, s)
              IN  /\ Len(w) <= Len(sent[s])
                  /\ w = SubSeq(sent[s], Len(sent[s]) - Len(w) + 1, Len(sent[s]))

C12_Witness ==
    \E s \in Sinks :
        /\ Len(sent[s]) >= 2
        /\ last[s].op = "event"
        /\ last[s].tx = "ok"
        /\ \E t \in Sinks : t # s /\ Len(sent[t]) >= 1

\* C13. event() returns Async only with a frame pending and the publisher
\* resolved, and an async_process() that returns Ok has enqueued the frame it
\* took: it is the last frame the channel accepted from the sink.
C13_AsyncHasFrameAndPublisher ==
    \A s \in Sinks :
        /\ (last[s].op = "event" /\ last[s].val = "Async")
           => /\ output_data[s].some
              /\ output_data[s].id = last[s].id
              /\ peer_endpoint_publisher[s] # 0
              /\ pc[s] = "async_process"
        /\ (last[s].op = "async_process" /\ last[s].val = "Ok")
           => /\ last[s].tx = "ok"
              /\ ~output_data[s].some
              /\ sent[s] # <<>>
              /\ sent[s][Len(sent[s])] = last[s].id
        /\ (last[s].op = "async_process" /\ last[s].val = "Err")
           => last[s].tx = "closed"

C13_Witness ==
    \E s \in Sinks :
        /\ last[s].op = "async_process"
        /\ last[s].val = "Ok"
        /\ last[s].id # 0
        /\ Len(sent[s]) >= 2

\* The step accepts a frame of sink s on channel c, and only there.
AcceptedOn(s, c) ==
    /\ chans'[c].q = Append(chans[c].q, Wire(s, sent'[s][Len(sent'[s])]))
    /\ \A d \in 1..Len(chans) : d # c => chans'[d] = chans[d]

\* C14. Lazy, one-time channel resolution: a sink is constructed without a
\* publisher; it enters the exchange manager's lookup only from an event() that
\* finds a frame pending and no publisher resolved; a resolved publisher is
\* never replaced nor looked up again; and every frame of the sink is accepted
\* on the channel of its resolved publisher.
C14_LazyOneTimeResolution ==
    [][\A s \in Sinks :
        /\ (last[s].op = "new" /\ pc[s] # "lookup") => peer_endpoint_publisher[s] = 0
        /\ (pc[s] # "lookup" /\ pc'[s] = "lookup")
           => /\ output_data[s].some
              /\ peer_endpoint_publisher[s] = 0
        /\ peer_endpoint_publisher'[s] # peer_endpoint_publisher[s]
           => /\ pc[s] = "lookup"
              /\ peer_endpoint_publisher[s] = 0
              /\ output_data'[s].some
        /\ peer_endpoint_publisher[s] # 0 => pc'[s] # "lookup"
        /\ sent'[s] # sent[s]
           => /\ peer_endpoint_publisher[s] # 0
              /\ AcceptedOn(s, peer_endpoint_publisher[s])]_vars

C14_Witness ==
    \E s \in Sinks :
        /\ peer_endpoint_publisher[s] # 0
        /\ Len(sent[s]) >= 2
        /\ output_data[s].some

\* ================================================================
\* DataTypeDate32::create_constant_column  (data_type_date32.rs)
\* ================================================================
\* A 64-bit integer is held as four 16-bit limbs, most significant first, in
\* two's complement: <<65535, 65535, 65535, 65535>> is -1.
MaxSize == 2

LimbValues == {0, 1, 32767, 32768, 65535}
I64Values == {<<a, b, c, d>> : a \in LimbValues, b \in LimbValues, c \in LimbValues, d \in LimbValues}

\* DataValue: the Int64 variant, and any variant that has no integer reading.
Int64(bits) == [kind |-> "Int64", bits |-> bits]
OtherValue == [kind |-> "Other", bits |-> <<0, 0, 0, 0>>]
DataValues == {Int64(b) : b \in I64Values} \cup {OtherValue}

default_value == Int64(<<0, 0, 0, 0>>)

\* data.as_i64(): Ok(value) for an integer variant, Err otherwise.
as_i64(data) ==
    IF data.kind = "Int64" THEN [ok |-> TRUE, value |-> data.bits]
                           ELSE [ok |-> FALSE, value |-> <<0, 0, 0, 0>>]

\* A narrowing that clamps to the i32 range instead of dropping the high bits.
as_i32_saturating(value) ==
    IF value[1] = 0 /\ value[2] = 0 /\ value[3] < 32768 THEN value[3] * 65536 + value[4]
    ELSE IF value[1] = 65535 /\ value[2] = 65535 /\ value[3] >= 32768
         THEN (value[3] - 65536) * 65536 + value[4]
    ELSE IF value[1] >= 32768 THEN (0 - 2147483647) - 1
    ELSE 2147483647

\* `value as i32`: the low 32 bits, read as a signed number.
as_i32(value) ==
    IF value[3] >= 32768 THEN (value[3] - 65536) * 65536 + value[4]
                         ELSE value[3] * 65536 + value[4]

\* Int32Column::full / Int32Column::full_null
full(x, size) == [i \in 1..size |-> [null |-> FALSE, value |-> x]]
full_null(size) == [i \in 1..size |-> [null |-> TRUE, value |-> 0]]

create_constant_column(data, size) ==
    LET value == as_i64(data)
    IN  IF value.ok THEN [ok |-> TRUE, column |-> full(as_i32(value.value), size)]
                    ELSE [ok |-> TRUE, column |-> full_null(size)]

InitDate32 ==
    /\ SinkInit
    /\ ice = NoCall
    /\ \E data \in DataValues, size \in 0..MaxSize :
          d32 = [called |-> FALSE, data |-> data, size |-> size]

CreateConstantColumn ==
    /\ ~d32.called
    /\ d32' = [called |-> TRUE, data |-> d32.data, size |-> d32.size,
               ret |-> create_constant_column(d32.data, d32.size)]
    /\ UNCHANGED <<sink_vars, ice>>

NextDate32 == CreateConstantColumn

SpecDate32 == InitDate32 /\ [][NextDate32]_vars

\* The two low limbs of a number of the i32 range.
Low32(x) == <<(x \div 65536) % 65536, x % 65536>>

\* The 64-bit value equals the sign extension of its low 32 bits.
FitsI32(bits) ==
    \/ bits[1] = 0 /\ bits[2] = 0 /\ bits[3] < 32768
    \/ bits[1] = 65535 /\ bits[2] = 65535 /\ bits[3] >= 32768

SignExtend(x) == (IF x < 0 THEN <<65535, 65535>> ELSE <<0, 0>>) \o Low32(x)

\* C15: create_constant_column never returns an error. When data reads as a
\* 64-bit integer v the column has `size` entries, none null, each the i32
\* with v's low 32 bits (so equal to v exactly when v is in the i32 range,
\* wrapped otherwise); when data has no integer reading the column is `size`
\* nulls. The default value Int64(0) therefore gives a column of zeros.
C15_ConstantColumn ==
    d32.called =>
        /\ d32.ret.ok
        /\ Len(d32.ret.column) = d32.size
        /\ d32.data.kind = "Int64" =>
              \A i \in 1..d32.size :
                  LET e == d32.ret.column[i]
                  IN  /\ ~e.null
                      /\ e.value >= (0 - 2147483647) - 1
                      /\ e.value <= 2147483647
                      /\ Low32(e.value) = <<d32.data.bits[3], d32.data.bits[4]>>
                      /\ (SignExtend(e.value) = d32.data.bits) <=> FitsI32(d32.data.bits)
        /\ d32.data.kind # "Int64" =>
              \A i \in 1..d32.size : d32.ret.column[i].null
        /\ d32.data = default_value =>
              \A i \in 1..d32.size : d32.ret.column[i] = [null |-> FALSE, value |-> 0]

\* A value outside the i32 range was narrowed: 2^31 became -2^31.
C15_Witness ==
    /\ d32.called
    /\ d32.data = Int64(<<0, 0, 32768, 0>>)
    /\ d32.size = MaxSize
    /\ d32.ret.column[1].value < 0

\* ================================================================
\* IcebergTable::try_create_table_from_read  (iceberg/src/table.rs)
\* ================================================================
\* A file is a sequence of bytes. "SP" and "LF" are white space, "FF" is a
\* byte that no UTF-8 text contains, "x" is a letter.
MaxHintLen == 3

Bytes == {"0", "1", "7", "SP", "LF", "+", "x", "FF"}

RECURSIVE ByteSeqs(_)
ByteSeqs(n) ==
    IF n = 0 THEN {<<>>}
    ELSE LET shorter == ByteSeqs(n - 1)
         IN  shorter \cup {Append(q, b) : q \in {r \in shorter : Len(r) = n - 1}, b \in Bytes}

\* The version-hint file of the table directory: missing/unreadable, or its bytes.
HintFiles ==
    {[readable |-> FALSE, bytes |-> <<>>]}
        \cup {[readable |-> TRUE, bytes |-> q] : q \in ByteSeqs(MaxHintLen)}

\* What the metadata file holds when it is read.
MetaFiles == {"unreadable", "undecodable", "metadata"}

database == "db0"
table_name == "table1"
META_DIR == "metadata"
META_PTR == "metadata/version_hint.text"

\* hint.read()
read(file) == [ok |-> file.readable, bytes |-> file.bytes]

\* String::from_utf8
from_utf8(bytes) ==
    [ok |-> \A k \in 1..Len(bytes) : bytes[k] # "FF", str |-> bytes]

is_whitespace(c) == c \in {"SP", "LF"}

RECURSIVE trim_start(_)
trim_start(str) ==
    IF str # <<>> /\ is_whitespace(Head(str)) THEN trim_start(Tail(str)) ELSE str

RECURSIVE trim_end(_)
trim_end(str) ==
    IF str # <<>> /\ is_whitespace(str[Len(str)])
    THEN trim_end(SubSeq(str, 1, Len(str) - 1))
    ELSE str

\* A read of the hint that keeps the surrounding white space.
trim_none(str) == str

\* str::trim
trim(str) == trim_end(trim_start(str))

to_digit(c) == IF c = "0" THEN 0 ELSE IF c = "1" THEN 1 ELSE IF c = "7" THEN 7 ELSE 10

RECURSIVE parse_digits(_, _)
parse_digits(result, digits) ==
    IF digits = <<>> THEN [ok |-> TRUE, value |-> result]
    ELSE IF to_digit(Head(digits)) >= 10 THEN [ok |-> FALSE, value |-> 0]
    ELSE parse_digits(result * 10 + to_digit(Head(digits)), Tail(digits))

\* str::parse::<u64>: an optional '+', then one or more decimal digits.
parse(str) ==
    IF str = <<>> THEN [ok |-> FALSE, value |-> 0]
    ELSE LET digits == IF Head(str) = "+" THEN Tail(str) ELSE str
         IN  IF digits = <<>> THEN [ok |-> FALSE, value |-> 0]
             ELSE parse_digits(0, digits)

DigitChars == <<"0", "1", "2", "3", "4", "5", "6", "7", "8", "9">>

\* The `{}` of format! for a u64: decimal, no sign, no leading zeros.
RECURSIVE to_string(_)
to_string(n) ==
    IF n < 10 THEN <<DigitChars[n + 1]>>
    ELSE Append(to_string(n \div 10), DigitChars[(n % 10) + 1])

meta_ptr_file == <<database, "/", table_name, "/", META_PTR>>

meta_file_latest(version) ==
    <<database, "/", table_name, "/", META_DIR, "/", "v">>
        \o to_string(version) \o <<".metadata.json">>

ReadTableDataError == [ok |-> FALSE, err |-> "ReadTableDataError", table |-> "none"]
OkTable(version) ==
    [ok |-> TRUE, err |-> "none",
     table |-> [database |-> database, name |-> table_name, manifests |-> version]]

InitIceberg ==
    /\ SinkInit
    /\ d32 = NoCall
    /\ \E hint \in HintFiles :
          ice = [pc |-> "read_hint", hint |-> hint, version |-> 0, reads |-> <<>>,
                 meta |-> "unread", ret |-> "none"]

\* Lines 80-92: read the hint, decode, trim, parse; any failure returns.
ReadHint ==
    /\ ice.pc = "read_hint"
    /\ LET bytes == read(ice.hint)
           text == from_utf8(bytes.bytes)
           version == parse(trim(text.str))
       IN  IF bytes.ok /\ text.ok /\ version.ok
           THEN ice' = [ice EXCEPT !.pc = "read_metadata",
                                   !.reads = Append(@, meta_ptr_file),
                                   !.version = version.value]
           ELSE ice' = [ice EXCEPT !.pc = "returned",
                                   !.reads = Append(@, meta_ptr_file),
                                   !.ret = ReadTableDataError]
    /\ UNCHANGED <<sink_vars, d32>>

\* Lines 96-133: read v{version}.metadata.json, decode it, build the table.
ReadMetadata(file) ==
    /\ ice.pc = "read_metadata"
    /\ ice' = [ice EXCEPT !.pc = "returned",
                          !.reads = Append(@, meta_file_latest(ice.version)),
                          !.meta = file,
                          !.ret = IF file = "metadata" THEN OkTable(ice.version)
                                                       ELSE ReadTableDataError]
    /\ UNCHANGED <<sink_vars, d32>>

NextIceberg ==
    \/ ReadHint
    \/ \E file \in MetaFiles : ReadMetadata(file)

SpecIceberg == InitIceberg /\ [][NextIceberg]_vars

IsDigit(c) == c \in {"0", "1", "7"}

\* The hint is readable text made of white space, then an optional '+' and
\* digits from position i to position j, then white space.
HintNumberAt(hint, i, j) ==
    /\ hint.readable
    /\ \A k \in 1..Len(hint.bytes) : hint.bytes[k] # "FF"
    /\ \A k \in 1..(i - 1) : hint.bytes[k] \in {"SP", "LF"}
    /\ \A k \in (j + 1)..Len(hint.bytes) : hint.bytes[k] \in {"SP", "LF"}
    /\ \/ IsDigit(hint.bytes[i])
       \/ hint.bytes[i] = "+" /\ i < j
    /\ \A k \in (i + 1)..j : IsDigit(hint.bytes[k])

HintParses(hint) ==
    \E i \in 1..Len(hint.bytes), j \in 1..Len(hint.bytes) : i <= j /\ HintNumberAt(hint, i, j)

\* The decimal numeral of the hint's number: its digits from the first that is
\* not a leading zero.
HintNumeral(hint) ==
    LET ij == CHOOSE p \in (1..Len(hint.bytes)) \X (1..Len(hint.bytes)) :
                  p[1] <= p[2] /\ HintNumberAt(hint, p[1], p[2])
        first == IF hint.bytes[ij[1]] = "+" THEN ij[1] + 1 ELSE ij[1]
        lead == CHOOSE z \in first..ij[2] :
                    /\ \A k \in first..(z - 1) : hint.bytes[k] = "0"
                    /\ hint.bytes[z] # "0" \/ z = ij[2]
    IN  SubSeq(hint.bytes, lead, ij[2])

HintPath == <<"db0", "/", "table1", "/", "metadata/version_hint.text">>
MetaPath(numeral) == <<"db0", "/", "table1", "/", "metadata", "/", "v">> \o numeral \o <<".metadata.json">>

\* C16: the version hint is read first and the metadata file second. If the
\* hint cannot be read, is not UTF-8 or is not (after trimming white space) an
\* unsigned integer, the call returns ReadTableDataError with no table and the
\* metadata file is never read; otherwise exactly
\* metadata/v{version}.metadata.json is read, and the call returns
\* ReadTableDataError if that file cannot be read or decoded.
C16_HintThenMetadata ==
    /\ ice.pc = "read_hint" => ice.reads = <<>> /\ ice.ret = "none"
    /\ ice.pc = "read_metadata" =>
          /\ HintParses(ice.hint)
          /\ ice.reads = <<HintPath>>
          /\ ice.ret = "none"
    /\ ice.pc = "returned" =>
          IF ~HintParses(ice.hint)
          THEN /\ ice.reads = <<HintPath>>
               /\ ice.ret.ok = FALSE
               /\ ice.ret.err = "ReadTableDataError"
               /\ ice.ret.table = "none"
          ELSE /\ ice.reads = <<HintPath, MetaPath(HintNumeral(ice.hint))>>
               /\ ice.meta \in {"unreadable", "undecodable"} =>
                     /\ ice.ret.ok = FALSE
                     /\ ice.ret.err = "ReadTableDataError"
                     /\ ice.ret.table = "none"
               /\ ice.meta = "metadata" => ice.ret.ok

\* A hint with a leading zero and a trailing newline led to reading v7.
C16_Witness ==
    /\ ice.pc = "returned"
    /\ ice.hint.bytes = <<"0", "7", "LF">>
    /\ ice.reads[2] = MetaPath(<<"7">>)
    /\ ice.meta = "undecodable"
    /\ ice.ret.err = "ReadTableDataError"

====
